---- MODULE Spec2Model ----
(***************************************************************************)
(* Model of nomad/deploymentwatcher/deployment_watcher.go: one             *)
(* deploymentWatcher, its background watch loop, the deferred tasks of     *)
(* createEvalBatched, StopWatch, and the three RPC operations.             *)
(*                                                                         *)
(* The State Reader (Allocations, Evaluations, GetJobVersions) and the     *)
(* Write Trigger are injected interfaces: every call returns any result    *)
(* of a bounded result set.                                                *)
(***************************************************************************)
EXTENDS Integers, Sequences, FiniteSets, TLC

\* ------------------------------------------------------------------ bounds
\* Largest store index (query index, modify index, write index).
MaxIndex == 2
\* Largest job version number.
MaxVersion == 1
\* Most deferred createEvalBatched tasks alive at once.
MaxBatch == 2
\* Number of distinct ids GenerateUUID can return.
MaxUUID == 1
\* Longest list the State Reader returns.
MaxList == 2
MaxRetry == 2

\* ------------------------------------------------------------ Go values
\* A nil pointer.
Nil == [nil |-> TRUE]

\* error values: nil, context.Canceled, any other error
ErrNil == "nil"
Canceled == "context.Canceled"
ErrOther == "error"

Indexes == 0..MaxIndex

\* structs.GenerateUUID: a random id, never the empty string
UUIDs == {"uuid-" \o ToString(n) : n \in 1..MaxUUID}

\* structs constants used by the watcher
DeploymentStatusFailed == "failed"
DeploymentStatusPaused == "paused"
DeploymentStatusRunning == "running"
DeploymentStatusDescriptionFailedAllocations == "Failed due to unhealthy allocations"
DeploymentStatusDescriptionPaused == "Deployment is paused"
DeploymentStatusDescriptionRunning == "Deployment is running"

\* ------------------------------------------------- the watcher's snapshot
\* w.j: the job the deployment is for; group A autoreverts, group B has no
\* update policy, group C has an update policy without the flag.
Job ==
  [ID |-> "job", Priority |-> 50, Type |-> "service",
   TaskGroups |-> << [Name |-> "A", Update |-> [AutoRevert |-> TRUE]],
                     [Name |-> "B", Update |-> Nil],
                     [Name |-> "C", Update |-> [AutoRevert |-> FALSE]] >>]

\* w.d: the deployment being watched
Deployment == [ID |-> "dep", JobID |-> "job"]

\* a constructor that takes a missing update policy for autorevert
AutoRevertFlagUnlessDisabled(tg) == tg.Update = Nil \/ tg.Update.AutoRevert

\* the flag newDeploymentWatcher stores for one task group
AutoRevertFlag(tg) == tg.Update # Nil /\ tg.Update.AutoRevert

\* w.autorevert as newDeploymentWatcher builds it
autorevert ==
  [name \in {Job.TaskGroups[i].Name : i \in DOMAIN Job.TaskGroups} |->
     \E i \in DOMAIN Job.TaskGroups :
        /\ Job.TaskGroups[i].Name = name
        /\ AutoRevertFlag(Job.TaskGroups[i])]

\* w.autorevert[name]: a Go map read, false for a missing key
AutorevertOf(name) == IF name \in DOMAIN autorevert THEN autorevert[name] ELSE FALSE

\* w.getEval(): the evaluation for the deployment, with the generated id
getEval(id) ==
  [ID |-> id, Priority |-> Job.Priority, Type |-> Job.Type,
   TriggeredBy |-> "rolling-update", JobID |-> Job.ID,
   DeploymentID |-> Deployment.ID, Status |-> "pending"]

\* w.getDeploymentStatusUpdate(status, desc)
getDeploymentStatusUpdate(status, desc) ==
  [DeploymentID |-> Deployment.ID, Status |-> status, StatusDescription |-> desc]

\* fmt.Sprintf("%s - rolling back to job version %d", desc, version): the
\* text as its pieces
RollbackDesc(desc, version) ==
  desc \o << " - rolling back to job version ", ToString(version) >>

\* ------------------------------------------------------ State Reader data
\* the allocations of the deployment and the task group of each
AllocTaskGroup == [a \in {"a1", "a2", "a3"} |->
                     IF a = "a1" THEN "A" ELSE IF a = "a2" THEN "B" ELSE "C"]

\* the allocations the watch loop's reads return
WatchAllocIDs == {"a1", "a2"}

\* the allocations SetAllocHealth's read returns
RpcAllocIDs == {"a1", "a2", "a3"}

\* alloc.DeploymentStatus: nil, or a health flag (*bool) and a modify index
DeploymentStatuses ==
  {Nil} \cup [Healthy : {"nil", "true", "false"}, ModifyIndex : 1..MaxIndex]

\* AllocDeploymentStatus.IsUnhealthy
IsUnhealthy(ds) == ds.Healthy = "false"

\* structs.AllocListStub values over the given ids and statuses
AllocStubs(ids, statuses) ==
  {[ID |-> a, TaskGroup |-> AllocTaskGroup[a], DeploymentStatus |-> s] :
     a \in ids, s \in statuses}

\* the lists of at most MaxList stubs, no allocation twice, in any order
AllocLists(stubs) ==
  {l \in UNION {[1..n -> stubs] : n \in 0..MaxList} :
     \A i, k \in DOMAIN l : i # k => l[i].ID # l[k].ID}

\* what one Allocations call can return: an error, or a list and an index
AllocationsResults(stubs) ==
  [err : {Canceled, ErrOther}, Index : {0}, Allocations : {<< >>}]
    \cup [err : {ErrNil}, Index : Indexes, Allocations : AllocLists(stubs)]

\* structs.Evaluation as latestEvalIndex reads it
EvalStubs == [SnapshotIndex : Indexes, CreateIndex : 1..MaxIndex]

\* the evaluation lists of a job, newest first: none, one, or a latest one
\* and an older one
EvalLists ==
  {<< >>} \cup {<<e>> : e \in EvalStubs}
    \cup {l \in {<<e, o>> : e \in EvalStubs, o \in EvalStubs} :
            l[2].CreateIndex < l[1].CreateIndex}

\* what one Evaluations call can return
EvaluationsResults ==
  [err : {Canceled, ErrOther}, Index : {0}, Evaluations : {<< >>}]
    \cup [err : {ErrNil}, Index : Indexes,
          Evaluations : EvalLists]

\* the versions of the job: GetJobVersions returns an error or a list
JobVersions == [ID : {Job.ID}, Version : 0..MaxVersion, Stable : BOOLEAN]

\* the version lists of a job, newest first: none, one, or two versions
JobVersionLists ==
  {<< >>} \cup {<<a>> : a \in JobVersions}
    \cup {l \in {<<a, b>> : a \in JobVersions, b \in JobVersions} :
            l[2].Version < l[1].Version}

JobVersionsResults ==
  [err : {ErrOther}, Versions : {<< >>}]
    \cup [err : {ErrNil}, Versions : JobVersionLists]

\* what a Write Trigger call can return: a write index or an error
WriteResults ==
  [err : {ErrOther}, index : {0}] \cup [err : {ErrNil}, index : 1..MaxIndex]

\* ---------------------------------------------------------- pure helpers
\* a wait that does not look at the context
WaitIgnoringContext(cancelled) == ErrNil

\* queryLimiter.Wait(w.ctx): fails with the context's error once cancelled
Wait(cancelled) == IF cancelled THEN Canceled ELSE ErrNil

\* latestStableJob: (job, err) from the result of GetJobVersions
RECURSIVE FirstStable(_, _)
FirstStable(versions, i) ==
  IF i > Len(versions) THEN Nil
  ELSE IF versions[i].Stable THEN versions[i]
  ELSE FirstStable(versions, i + 1)

latestStableJob(r) ==
  IF r.err # ErrNil THEN [job |-> Nil, err |-> r.err]
  ELSE [job |-> FirstStable(r.Versions, 1), err |-> ErrNil]

\* every (job, err) latestStableJob can return
latestStableJobResults == {latestStableJob(r) : r \in JobVersionsResults}

\* a latestEvalIndex that prefers the create index to the snapshot index
latestEvalIndexCreateFirst(r) ==
  IF r.err # ErrNil THEN [index |-> 0, err |-> r.err]
  ELSE IF Len(r.Evaluations) = 0 THEN [index |-> r.Index, err |-> ErrNil]
  ELSE IF r.Evaluations[1].CreateIndex # 0
       THEN [index |-> r.Evaluations[1].CreateIndex, err |-> ErrNil]
  ELSE [index |-> r.Evaluations[1].SnapshotIndex, err |-> ErrNil]

\* latestEvalIndex after its rate-limiter wait: (index, err) from the
\* result of Evaluations
latestEvalIndex(r) ==
  IF r.err # ErrNil THEN [index |-> 0, err |-> r.err]
  ELSE IF Len(r.Evaluations) = 0 THEN [index |-> r.Index, err |-> ErrNil]
  ELSE IF r.Evaluations[1].SnapshotIndex # 0
       THEN [index |-> r.Evaluations[1].SnapshotIndex, err |-> ErrNil]
  ELSE [index |-> r.Evaluations[1].CreateIndex, err |-> ErrNil]

\* every (index, err) latestEvalIndex can return after its wait
latestEvalIndexResults == {latestEvalIndex(r) : r \in EvaluationsResults}

\* a scan test that also takes an allocation modified at latestEval as new
IsNewFromWatermark(alloc, latest) ==
  ~(alloc.DeploymentStatus = Nil \/ alloc.DeploymentStatus.ModifyIndex < latest)

\* the scan's test: the allocation's deployment status is past latestEval
IsNew(alloc, latest) ==
  ~(alloc.DeploymentStatus = Nil \/ alloc.DeploymentStatus.ModifyIndex <= latest)

NoFlags == [createEval |-> FALSE, failDeployment |-> FALSE, rollback |-> FALSE]

\* the scan of watch: createEval, failDeployment, rollback over allocs[i..]
RECURSIVE Scan(_, _, _, _)
Scan(list, i, latest, flags) ==
  IF i > Len(list) THEN flags
  ELSE IF ~IsNew(list[i], latest) THEN Scan(list, i + 1, latest, flags)
  ELSE LET unhealthy == IsUnhealthy(list[i].DeploymentStatus)
           f == [createEval |-> TRUE,
                 failDeployment |-> flags.failDeployment \/ unhealthy,
                 rollback |-> flags.rollback
                                \/ (unhealthy /\ AutorevertOf(list[i].TaskGroup))]
       IN IF f.createEval /\ f.failDeployment /\ f.rollback
          THEN f
          ELSE Scan(list, i + 1, latest, f)

\* createEvalBatched: the number of deferred tasks after a call made with
\* `sleeping` tasks in their delay; outstandingBatch is only read
createEvalBatched(outstanding, sleeping) ==
  IF outstanding THEN sleeping ELSE sleeping + 1

\* ------------------------------------------------------------------ state
VARIABLES
  pc,               \* where the watch goroutine is
  latestEval,       \* watch: latestEval
  index,            \* getAllocs: its parameter
  allocs,           \* watch: allocs of the current iteration
  ctxCancelled,     \* w.ctx is cancelled
  outstandingBatch, \* w.outstandingBatch
  batchSleeping,    \* deferred tasks of createEvalBatched in time.Sleep
  batchCreating,    \* deferred tasks past the flag reset, before createEval
  ev,               \* what the last step of the watch goroutine did
  writesAfterStop,  \* writes and batch requests of watch made after StopWatch
  rpc,              \* the last RPC operation: its inputs, calls and outcome
  respIndex,        \* getAllocs: resp.Index, 0 outside the call
  stopCalls,        \* StopWatch was called 0 times, 1 time, 2 times or more
  store,            \* what the State Reader answers from, where it is fixed
  fn                \* a helper applied on its own: its input and its result

vars == << pc, latestEval, index, allocs, ctxCancelled, outstandingBatch,
           batchSleeping, batchCreating, ev, writesAfterStop, rpc,
           respIndex, stopCalls, store, fn >>

watchVarsButFn == << pc, latestEval, index, allocs, ctxCancelled,
                     outstandingBatch, batchSleeping, batchCreating, ev,
                     writesAfterStop, respIndex, stopCalls, store >>

watchVars == << pc, latestEval, index, allocs, ctxCancelled, outstandingBatch,
                batchSleeping, batchCreating, ev, writesAfterStop,
                respIndex, stopCalls, store, fn >>

\* a step of watch that calls nothing of the Write Trigger
NoCall ==
  [op |-> "read", allocs |-> << >>, latest |-> 0, call |-> "none",
   u |-> Nil, eval |-> Nil, job |-> Nil, err |-> ErrNil,
   previous |-> 0, windex |-> 0]

\* a step of watch that made a State Reader call: the call's error
ReadCall(err) == [NoCall EXCEPT !.err = err]

\* the State Reader is not fixed: each call answers anything
NoStore == [fixed |-> FALSE]

\* the fixed State Readers of a deployment that is failing: the allocations
\* table (its index is at least every modify index in it), the index
\* latestEvalIndex returns for the job's evaluations, the job latestStableJob
\* returns, and an unhealthy allocation modified past that evaluation index
Stores ==
  {st \in [fixed : {TRUE},
           Index : 1..MaxIndex,
           Allocations : AllocLists(AllocStubs(WatchAllocIDs, DeploymentStatuses)),
           evalIndex : Indexes,
           stable : {r.job : r \in {x \in latestStableJobResults : x.err = ErrNil}},
           failedWrites : {0}] :
     /\ \A i \in DOMAIN st.Allocations :
          \/ st.Allocations[i].DeploymentStatus = Nil
          \/ st.Allocations[i].DeploymentStatus.ModifyIndex <= st.Index
     /\ \E i \in DOMAIN st.Allocations :
          /\ st.Allocations[i].DeploymentStatus # Nil
          /\ IsUnhealthy(st.Allocations[i].DeploymentStatus)
          /\ st.Allocations[i].DeploymentStatus.ModifyIndex > st.evalIndex}

\* no helper is applied on its own
NoFn == [name |-> "none"]

\* structs.DeploymentUpdateResponse: the zero value, and one a caller filled
\* before the call
ZeroResponse == [EvalID |-> "", EvalCreateIndex |-> 0, DeploymentModifyIndex |-> 0]

Responses ==
  {ZeroResponse,
   [EvalID |-> "uuid-0", EvalCreateIndex |-> 1, DeploymentModifyIndex |-> 1]}

\* req.UnhealthyAllocationIDs: at most MaxList ids, none twice
UnhealthyLists ==
  {l \in UNION {[1..n -> RpcAllocIDs] : n \in 0..MaxList} :
     \A i, k \in DOMAIN l : i # k => l[i] # l[k]}

\* no RPC operation has run
NoRpc ==
  [op |-> "none", at |-> "idle", unhealthy |-> << >>, pause |-> FALSE,
   respIn |-> ZeroResponse, resp |-> ZeroResponse, ret |-> ErrNil,
   allocReads |-> 0, allocErr |-> ErrNil, allocations |-> << >>,
   lookups |-> 0, versions |-> Nil, j |-> Nil, u |-> Nil,
   write |-> Nil, writeErr |-> ErrNil, writeIndex |-> 0]

\* the state newDeploymentWatcher leaves: the context is live, the flag is
\* false, and the watch goroutine is at the top of its loop, entering
\* getAllocs(latestEval) with latestEval = 0
InitWatcher ==
  /\ pc = "getAllocsWait"
  /\ latestEval = 0
  /\ index = 0
  /\ allocs = << >>
  /\ ctxCancelled = FALSE
  /\ outstandingBatch = FALSE
  /\ batchSleeping = 0
  /\ batchCreating = 0
  /\ ev = NoCall
  /\ writesAfterStop = 0
  /\ rpc = NoRpc
  /\ respIndex = 0
  /\ stopCalls = 0

Init == InitWatcher /\ store = NoStore /\ fn = NoFn

\* the process runs: a nil dereference in a goroutine ends all of it
Alive == pc # "panic" /\ rpc.at # "panic"

\* ---------------------------------------------------------- StopWatch
\* a StopWatch whose second call undoes the first
StopWatchToggle ==
  /\ Alive
  /\ stopCalls' = IF stopCalls = 0 THEN 1 ELSE 2
  /\ ctxCancelled' = ~ctxCancelled
  /\ UNCHANGED << pc, latestEval, index, allocs, outstandingBatch,
                  batchSleeping, batchCreating, ev, writesAfterStop, rpc,
                  respIndex, store, fn >>

\* StopWatch: w.exitFn(), the cancel function of w.ctx; cancelling twice is
\* cancelling once
StopWatch ==
  /\ Alive
  /\ stopCalls' = IF stopCalls = 0 THEN 1 ELSE 2
  /\ ctxCancelled' = TRUE
  /\ UNCHANGED << pc, latestEval, index, allocs, outstandingBatch,
                  batchSleeping, batchCreating, ev, writesAfterStop, rpc,
                  respIndex, store, fn >>

\* ------------------------------------------------------------ getAllocs
\* getAllocs: queryLimiter.Wait at the top of its loop; on an error watch
\* gets (nil, err), and the error of a cancelled context ends it
GetAllocsWait ==
  /\ Alive
  /\ pc = "getAllocsWait"
  /\ IF Wait(ctxCancelled) = ErrNil
     THEN pc' = "getAllocsQuery" /\ UNCHANGED << allocs, respIndex >>
     ELSE pc' = "done" /\ allocs' = << >> /\ respIndex' = 0
  /\ ev' = NoCall
  /\ UNCHANGED << latestEval, index, ctxCancelled, outstandingBatch,
                  batchSleeping, batchCreating, writesAfterStop, rpc,
                  stopCalls, store, fn >>

\* a loop test that lets a result at the requested index through
KeepsQueryingBelow(respIdx, idx) == respIdx < idx

\* getAllocs: the loop test `resp.Index <= index`
KeepsQuerying(respIdx, idx) == respIdx <= idx

\* getAllocs: one Allocations call answered from results, then the loop test
GetAllocsQueryFrom(results) ==
  /\ Alive
  /\ pc = "getAllocsQuery"
  /\ \E r \in results :
       /\ IF r.err = Canceled
          THEN pc' = "done" /\ allocs' = << >> /\ respIndex' = 0
          ELSE IF r.err # ErrNil
          THEN pc' = "latestEvalWait" /\ allocs' = << >> /\ respIndex' = 0
          ELSE IF KeepsQuerying(r.Index, index)
          THEN pc' = "getAllocsWait" /\ UNCHANGED allocs /\ respIndex' = r.Index
          ELSE /\ pc' = "latestEvalWait"
               /\ allocs' = r.Allocations
               /\ respIndex' = r.Index
       /\ ev' = ReadCall(r.err)
  /\ UNCHANGED << latestEval, index, ctxCancelled, outstandingBatch,
                  batchSleeping, batchCreating, writesAfterStop, rpc,
                  stopCalls, store, fn >>

\* getAllocs under a State Reader that may answer anything
GetAllocsQuery ==
  GetAllocsQueryFrom(AllocationsResults(AllocStubs(WatchAllocIDs, DeploymentStatuses)))

\* ------------------------------------------------------ latestEvalIndex
\* latestEvalIndex: its queryLimiter.Wait; on an error watch assigns
\* (0, err) and the error of a cancelled context ends it
LatestEvalWait ==
  /\ Alive
  /\ pc = "latestEvalWait"
  /\ IF Wait(ctxCancelled) = ErrNil
     THEN pc' = "latestEvalQuery" /\ UNCHANGED latestEval
     ELSE pc' = "done" /\ latestEval' = 0
  /\ ev' = NoCall
  /\ respIndex' = 0
  /\ UNCHANGED << index, allocs, ctxCancelled, outstandingBatch,
                  batchSleeping, batchCreating, writesAfterStop, rpc,
                  stopCalls, store, fn >>

\* latestEvalIndex: the Evaluations call; watch assigns the result to
\* latestEval, error or not
LatestEvalQueryFrom(results) ==
  /\ Alive
  /\ pc = "latestEvalQuery"
  /\ \E r \in results :
       /\ latestEval' = r.index
       /\ pc' = IF r.err = Canceled THEN "done" ELSE "decide"
       /\ ev' = ReadCall(r.err)
  /\ UNCHANGED << index, allocs, ctxCancelled, outstandingBatch,
                  batchSleeping, batchCreating, writesAfterStop, rpc,
                  respIndex, stopCalls, store, fn >>

\* getAllocs under a fixed State Reader
StoreGetAllocsQuery ==
  /\ store.fixed
  /\ GetAllocsQueryFrom({[err |-> ErrNil, Index |-> store.Index,
                          Allocations |-> store.Allocations]})

\* latestEvalIndex under a fixed State Reader
StoreLatestEvalQuery ==
  /\ store.fixed
  /\ LatestEvalQueryFrom({[index |-> store.evalIndex, err |-> ErrNil]})

\* latestEvalIndex under a State Reader that may answer anything
LatestEvalQuery == LatestEvalQueryFrom(latestEvalIndexResults)

\* ------------------------------------------------- watch: scan and react
\* a scan against the watermark the iteration began with
DecideFlagsFromPrevious == Scan(allocs, 1, index, NoFlags)

\* the flags the scan of this iteration computes
DecideFlags == Scan(allocs, 1, latestEval, NoFlags)

\* what a reacting step of watch records of itself
DecideEvent(call, u, eval, job, err) ==
  [op |-> "decide", allocs |-> allocs, latest |-> latestEval, call |-> call,
   u |-> u, eval |-> eval, job |-> job, err |-> err,
   previous |-> index, windex |-> 0]

\* a next iteration that goes to the State Reader without the wait
NextIterationNoWait ==
  /\ pc' = "getAllocsQuery"
  /\ index' = latestEval'
  /\ allocs' = << >>

\* the next iteration begins: allocs is a variable of the loop body, and
\* getAllocs is entered with the watermark as its index
NextIteration ==
  /\ pc' = "getAllocsWait"
  /\ index' = latestEval'
  /\ allocs' = << >>

\* a watermark that takes the write's index whether the write failed or not
WatermarkAfterWriteAlways(latest, wr) == wr.index

\* watch after its write: `if err != nil { ... } else { latestEval = index }`
WatermarkAfterWrite(latest, wr) == IF wr.err # ErrNil THEN latest ELSE wr.index

\* a fixed State Reader counts the failure writes that failed in a row
Track(s, err) ==
  IF ~s.fixed THEN s
  ELSE [s EXCEPT !.failedWrites = IF err = ErrNil THEN 0
                                   ELSE IF @ < MaxRetry THEN @ + 1 ELSE @]

\* watch, failDeployment: the stable job if rollback, the description, and
\* the write of the failed status with a fresh evaluation. j.Version is read
\* with j nil when the lookup failed or found no stable version: the
\* goroutine panics.
WatchFailFrom(stables) ==
  /\ Alive
  /\ pc = "decide"
  /\ DecideFlags.failDeployment
  /\ \E stable \in IF DecideFlags.rollback THEN stables ELSE {Nil},
        id \in UUIDs, wr \in WriteResults :
       LET base == << DeploymentStatusDescriptionFailedAllocations >>
           j == IF DecideFlags.rollback THEN stable.job ELSE Nil
       IN IF DecideFlags.rollback /\ j = Nil
          THEN /\ pc' = "panic"
               /\ ev' = DecideEvent("panic", Nil, Nil, Nil, ErrNil)
               /\ UNCHANGED << latestEval, index, allocs, writesAfterStop,
                               store >>
          ELSE LET desc == IF DecideFlags.rollback
                           THEN RollbackDesc(base, j.Version)
                           ELSE base
               IN /\ ev' = [DecideEvent("upsertDeploymentStatusUpdate",
                              getDeploymentStatusUpdate(DeploymentStatusFailed, desc),
                              getEval(id), j, wr.err)
                            EXCEPT !.windex = wr.index]
                  /\ latestEval' = WatermarkAfterWrite(latestEval, wr)
                  /\ store' = Track(store, wr.err)
                  /\ writesAfterStop' =
                       IF ctxCancelled THEN writesAfterStop + 1 ELSE writesAfterStop
                  /\ NextIteration
  /\ UNCHANGED << ctxCancelled, outstandingBatch, batchSleeping, batchCreating,
                  rpc, respIndex, stopCalls, fn >>

\* watch, failDeployment, under a fixed State Reader
StoreWatchFail ==
  /\ store.fixed
  /\ WatchFailFrom({[job |-> store.stable, err |-> ErrNil]})

\* watch, failDeployment, under a State Reader that may answer anything
WatchFail == WatchFailFrom(latestStableJobResults)

\* watch, createEval without failDeployment: createEvalBatched. The flag is
\* tested under the lock and a deferred task is started; nothing sets the
\* flag.
WatchCreateEval ==
  /\ Alive
  /\ pc = "decide"
  /\ ~DecideFlags.failDeployment
  /\ DecideFlags.createEval
  /\ batchSleeping + batchCreating < MaxBatch
  /\ batchSleeping' = createEvalBatched(outstandingBatch, batchSleeping)
  /\ ev' = DecideEvent("createEvalBatched", Nil, Nil, Nil, ErrNil)
  /\ writesAfterStop' = IF ctxCancelled THEN writesAfterStop + 1 ELSE writesAfterStop
  /\ latestEval' = latestEval
  /\ NextIteration
  /\ UNCHANGED << ctxCancelled, outstandingBatch, batchCreating, rpc,
                  respIndex, stopCalls, store, fn >>

\* watch, no flag set: the iteration ends without a call
WatchIdle ==
  /\ Alive
  /\ pc = "decide"
  /\ ~DecideFlags.failDeployment
  /\ ~DecideFlags.createEval
  /\ ev' = DecideEvent("none", Nil, Nil, Nil, ErrNil)
  /\ latestEval' = latestEval
  /\ NextIteration
  /\ UNCHANGED << ctxCancelled, outstandingBatch, batchSleeping, batchCreating,
                  writesAfterStop, rpc, respIndex, stopCalls, store, fn >>

\* ------------------------------------- the deferred task of createEvalBatched
\* time.Sleep(evalBatchPeriod) is over: the task resets the flag under the lock
BatchWake ==
  /\ Alive
  /\ batchSleeping > 0
  /\ outstandingBatch' = FALSE
  /\ batchSleeping' = batchSleeping - 1
  /\ batchCreating' = batchCreating + 1
  /\ UNCHANGED << pc, latestEval, index, allocs, ctxCancelled, ev,
                  writesAfterStop, rpc, respIndex, stopCalls, store, fn >>

\* the task's createEval: one createEvaluation write; an error is logged
BatchCreateEval ==
  /\ Alive
  /\ batchCreating > 0
  /\ \E id \in UUIDs, wr \in WriteResults : TRUE
  /\ batchCreating' = batchCreating - 1
  /\ UNCHANGED << pc, latestEval, index, allocs, ctxCancelled, outstandingBatch,
                  batchSleeping, ev, writesAfterStop, rpc, respIndex, stopCalls,
                  store, fn >>

\* --------------------------------------------------------- RPC operations
\* the operations run on their callers' goroutines and share no state with
\* watch; rpc holds the one in progress or the last one returned
RpcIdle == Alive /\ rpc.at \in {"idle", "returned"}

\* a response that leaves resp.DeploymentModifyIndex as the caller passed it
BuildResponseEvalOnly(evalID, i) ==
  [EvalID |-> evalID, EvalCreateIndex |-> i, DeploymentModifyIndex |-> 0]

\* the response as the three operations build it after their write
BuildResponse(evalID, i) ==
  [EvalID |-> evalID, EvalCreateIndex |-> i, DeploymentModifyIndex |-> i]

\* a return that builds the response before it tests the write's error
RpcReturnResponseFirst(r, write, wr, evalID) ==
  [r EXCEPT !.write = write,
            !.writeErr = wr.err,
            !.writeIndex = wr.index,
            !.ret = wr.err,
            !.resp = BuildResponse(evalID, wr.index),
            !.at = "returned"]

\* an operation's write and return: `if err != nil { return err }`, then the
\* response is built
RpcReturn(r, write, wr, evalID) ==
  [r EXCEPT !.write = write,
            !.writeErr = wr.err,
            !.writeIndex = wr.index,
            !.ret = wr.err,
            !.resp = IF wr.err # ErrNil THEN r.resp
                     ELSE BuildResponse(evalID, wr.index),
            !.at = "returned"]

\* SetAllocHealth: the set built from req.UnhealthyAllocationIDs
UnhealthySet(l) == {l[i] : i \in DOMAIN l}

\* SetAllocHealth: the position of the first fetched allocation that is
\* reported unhealthy and whose task group autoreverts, 0 if there is none
RECURSIVE FirstRevert(_, _, _)
FirstRevert(list, unhealthy, i) ==
  IF i > Len(list) THEN 0
  ELSE IF list[i].ID \notin unhealthy THEN FirstRevert(list, unhealthy, i + 1)
  ELSE IF ~AutorevertOf(list[i].TaskGroup) THEN FirstRevert(list, unhealthy, i + 1)
  ELSE i

\* a SetAllocHealth that fetches the allocations whatever the request lists
SetAllocHealthBeginAlwaysFetch ==
  /\ RpcIdle
  /\ \E l \in UnhealthyLists, respIn \in Responses :
       rpc' = [NoRpc EXCEPT !.op = "SetAllocHealth", !.unhealthy = l,
                            !.respIn = respIn, !.resp = respIn,
                            !.at = "allocations"]
  /\ UNCHANGED watchVars

\* SetAllocHealth is called; without unhealthy allocations it goes to its
\* write with no status update and no job
SetAllocHealthBegin ==
  /\ RpcIdle
  /\ \E l \in UnhealthyLists, respIn \in Responses :
       rpc' = [NoRpc EXCEPT !.op = "SetAllocHealth", !.unhealthy = l,
                            !.respIn = respIn, !.resp = respIn,
                            !.at = IF Len(l) # 0 THEN "allocations" ELSE "write"]
  /\ UNCHANGED watchVars

\* SetAllocHealth: the Allocations call and the loop over its result
SetAllocHealthAllocations ==
  /\ Alive
  /\ rpc.op = "SetAllocHealth"
  /\ rpc.at = "allocations"
  /\ \E ar \in AllocationsResults(AllocStubs(RpcAllocIDs, {Nil})) :
       rpc' =
         IF ar.err # ErrNil
         THEN [rpc EXCEPT !.allocReads = 1, !.allocErr = ar.err, !.ret = ar.err,
                          !.at = "returned"]
         ELSE IF FirstRevert(ar.Allocations, UnhealthySet(rpc.unhealthy), 1) # 0
         THEN [rpc EXCEPT !.allocReads = 1, !.allocations = ar.Allocations,
                          !.at = "lookup"]
         ELSE [rpc EXCEPT !.allocReads = 1, !.allocations = ar.Allocations,
                          !.u = getDeploymentStatusUpdate(DeploymentStatusFailed,
                                  << DeploymentStatusDescriptionFailedAllocations >>),
                          !.at = "write"]
  /\ UNCHANGED watchVars

\* SetAllocHealth: latestStableJob for the first match, then j.Version for
\* the description; with no stable version j is nil and the read panics
SetAllocHealthLookup ==
  /\ Alive
  /\ rpc.op = "SetAllocHealth"
  /\ rpc.at = "lookup"
  /\ \E jv \in JobVersionsResults :
       LET r == latestStableJob(jv)
           looked == [rpc EXCEPT !.lookups = 1, !.versions = jv]
       IN rpc' =
            IF r.err # ErrNil
            THEN [looked EXCEPT !.ret = r.err, !.at = "returned"]
            ELSE IF r.job = Nil
            THEN [looked EXCEPT !.ret = "panic", !.at = "panic"]
            ELSE [looked EXCEPT
                    !.j = r.job,
                    !.u = getDeploymentStatusUpdate(DeploymentStatusFailed,
                            RollbackDesc(<< DeploymentStatusDescriptionFailedAllocations >>,
                                         r.job.Version)),
                    !.at = "write"]
  /\ UNCHANGED watchVars

\* SetAllocHealth: the request, upsertDeploymentAllocHealth, the response
SetAllocHealthWrite ==
  /\ Alive
  /\ rpc.op = "SetAllocHealth"
  /\ rpc.at = "write"
  /\ \E id \in UUIDs, wr \in WriteResults :
       rpc' = RpcReturn(rpc,
                [call |-> "upsertDeploymentAllocHealth", Eval |-> getEval(id),
                 DeploymentUpdate |-> rpc.u, Job |-> rpc.j],
                wr, id)
  /\ UNCHANGED watchVars

\* PromoteDeployment: the request with a fresh evaluation,
\* upsertDeploymentPromotion, the response
PromoteDeployment ==
  /\ RpcIdle
  /\ \E respIn \in Responses, id \in UUIDs, wr \in WriteResults :
       rpc' = RpcReturn(
                [NoRpc EXCEPT !.op = "PromoteDeployment", !.respIn = respIn,
                              !.resp = respIn],
                [call |-> "upsertDeploymentPromotion", Eval |-> getEval(id),
                 DeploymentUpdate |-> Nil, Job |-> Nil],
                wr, id)
  /\ UNCHANGED watchVars

\* a transition that creates the evaluation whatever req.Pause is
PauseTransitionAlwaysEval(pause, id) ==
  [status |-> IF pause THEN DeploymentStatusPaused ELSE DeploymentStatusRunning,
   desc |-> IF pause THEN << DeploymentStatusDescriptionPaused >>
            ELSE << DeploymentStatusDescriptionRunning >>,
   eval |-> getEval(id), evalID |-> id]

\* PauseDeployment: status, description, evaluation and evalID for req.Pause
PauseTransition(pause, id) ==
  IF ~pause
  THEN [status |-> DeploymentStatusRunning,
        desc |-> << DeploymentStatusDescriptionRunning >>,
        eval |-> getEval(id), evalID |-> id]
  ELSE [status |-> DeploymentStatusPaused,
        desc |-> << DeploymentStatusDescriptionPaused >>,
        eval |-> Nil, evalID |-> ""]

\* PauseDeployment: upsertDeploymentStatusUpdate(update, eval, nil), the
\* response
PauseDeployment ==
  /\ RpcIdle
  /\ \E pause \in BOOLEAN, respIn \in Responses, id \in UUIDs, wr \in WriteResults :
       LET t == PauseTransition(pause, id)
       IN rpc' = RpcReturn(
                   [NoRpc EXCEPT !.op = "PauseDeployment", !.pause = pause,
                                 !.respIn = respIn, !.resp = respIn],
                   [call |-> "upsertDeploymentStatusUpdate", Eval |-> t.eval,
                    DeploymentUpdate |-> getDeploymentStatusUpdate(t.status, t.desc),
                    Job |-> Nil],
                   wr, t.evalID)
  /\ UNCHANGED watchVars

\* ------------------------------------------------------- specifications
Next ==
  \/ StopWatch
  \/ GetAllocsWait
  \/ GetAllocsQuery
  \/ LatestEvalWait
  \/ LatestEvalQuery
  \/ WatchFail
  \/ WatchCreateEval
  \/ WatchIdle
  \/ BatchWake
  \/ BatchCreateEval

\* the watcher: its watch goroutine, its deferred tasks, and StopWatch
Spec == Init /\ [][Next]_vars

\* a step of the watch goroutine
WatchStep ==
  \/ GetAllocsWait
  \/ GetAllocsQuery
  \/ LatestEvalWait
  \/ LatestEvalQuery
  \/ WatchFail
  \/ WatchCreateEval
  \/ WatchIdle

\* a step of a deferred task of createEvalBatched
BatchStep == BatchWake \/ BatchCreateEval

\* the watcher under a scheduler that runs every goroutine that can run, a
\* State Reader whose calls return, and a time.Sleep that ends
SpecFair == Spec /\ WF_vars(WatchStep) /\ WF_vars(BatchStep)

NextRetry ==
  \/ StopWatch
  \/ GetAllocsWait
  \/ StoreGetAllocsQuery
  \/ LatestEvalWait
  \/ StoreLatestEvalQuery
  \/ StoreWatchFail

InitRetry == InitWatcher /\ store \in Stores /\ fn = NoFn

\* the watch loop of a failing deployment whose State Reader answers every
\* call from the same, unchanged store
SpecRetry == InitRetry /\ [][NextRetry]_vars

\* latestEvalIndex is called with the context live or cancelled and the
\* State Reader about to answer fn.in
InitLatestEvalIndex ==
  /\ InitWatcher
  /\ store = NoStore
  /\ fn \in [name : {"latestEvalIndex"}, cancelled : BOOLEAN,
              in : EvaluationsResults, out : {Nil}]

\* the whole of latestEvalIndex: the rate-limiter wait, then the Evaluations
\* call and the choice of the index
ApplyLatestEvalIndex ==
  /\ fn.name = "latestEvalIndex"
  /\ fn.out = Nil
  /\ fn' = [fn EXCEPT !.out = IF Wait(fn.cancelled) # ErrNil
                               THEN [index |-> 0, err |-> Wait(fn.cancelled)]
                               ELSE latestEvalIndex(fn.in)]
  /\ UNCHANGED << watchVarsButFn, rpc >>

NextLatestEvalIndex == ApplyLatestEvalIndex

\* latestEvalIndex on its own, over every answer of the State Reader
SpecLatestEvalIndex == InitLatestEvalIndex /\ [][NextLatestEvalIndex]_vars

NextRpc ==
  \/ SetAllocHealthBegin
  \/ SetAllocHealthAllocations
  \/ SetAllocHealthLookup
  \/ SetAllocHealthWrite
  \/ PromoteDeployment
  \/ PauseDeployment

\* the RPC operations of the watcher, one call at a time
SpecRpc == Init /\ [][NextRpc]_vars

\* ------------------------------------------------------------ properties
\* a step in which watch reacts to its scan (WatchFail, WatchCreateEval or
\* WatchIdle): no other action moves pc off "decide"
WatchReacts == pc = "decide" /\ pc' # "decide"

\* the calls by which watch writes or requests a write
WatchWrites == {"upsertDeploymentStatusUpdate", "createEvalBatched"}

\* C1: a createEvalBatched request made while a deferred task is still in its
\* delay (the batching window is open) is absorbed: it starts no further
\* deferred task, so the window ends in exactly one createEvaluation write.
C1_OneWritePerWindow ==
  [][(WatchReacts /\ ev'.call = "createEvalBatched" /\ batchSleeping >= 1)
       => batchSleeping' = batchSleeping]_vars

\* C2: at most one deferred evaluation-creation task is pending (scheduled,
\* not yet fired), and outstandingBatch is true exactly while one is pending.
C2_AtMostOnePending ==
  /\ batchSleeping <= 1
  /\ outstandingBatch <=> batchSleeping = 1

\* with the context cancelled, a rate-limiter wait ends the watch loop
StoppedWaitExits ==
  (ctxCancelled /\ pc \in {"getAllocsWait", "latestEvalWait"} /\ pc' # pc)
    => pc' = "done"

\* C3 as claimed: once StopWatch has been invoked the watch loop exits at its
\* next rate-limiter wait and issues no write and no batch request after the
\* call, wherever in its cycle the call lands.
C3_NoWriteAfterStopWatch ==
  [][/\ StoppedWaitExits
     /\ (ctxCancelled /\ WatchReacts) => ev'.call \notin WatchWrites]_vars

\* C3 as amended: once StopWatch has been invoked the watch loop exits at its
\* next rate-limiter wait; after the call it issues at most one write or batch
\* request, the one of a cycle that had passed its last wait before the call.
C3_ExitsAtNextWait ==
  /\ [](writesAfterStop <= 1)
  /\ [][StoppedWaitExits]_vars

\* StopWatch landed between the last wait of a cycle and its reaction: the
\* cycle wrote once and the loop then exited at its next wait
C3_Witness == ctxCancelled /\ pc = "done" /\ writesAfterStop = 1

\* C4: latestEval never becomes smaller than a value it held earlier, for as
\* long as the watch loop runs.
C4_WatermarkNonDecreasing ==
  [][pc' \notin {"done", "panic"} => latestEval' >= latestEval]_vars

\* C5: a cycle whose fetched allocations all have a deployment-status modify
\* index at or below the watermark the scan runs with (or no deployment
\* status) triggers no write: no status update, no evaluation request.
C5_NoWriteWithoutNewAllocation ==
  [][(/\ WatchReacts
      /\ \A i \in DOMAIN allocs :
           \/ allocs[i].DeploymentStatus = Nil
           \/ allocs[i].DeploymentStatus.ModifyIndex <= latestEval)
       => /\ ev'.call = "none"
          /\ batchSleeping' = batchSleeping
          /\ latestEval' = latestEval
          /\ writesAfterStop' = writesAfterStop]_vars

\* a cycle has ended without a call although it fetched an unhealthy
\* allocation, modified exactly at the watermark
C5_Witness ==
  /\ ev.op = "decide"
  /\ ev.call = "none"
  /\ \E i \in DOMAIN ev.allocs :
       /\ ev.allocs[i].DeploymentStatus # Nil
       /\ IsUnhealthy(ev.allocs[i].DeploymentStatus)
       /\ ev.allocs[i].DeploymentStatus.ModifyIndex = ev.latest

\* C6: a cycle that finds a new unhealthy allocation in an autorevert group
\* always issues its failure write and keeps running; the write carries a
\* stable job and a description with its version, or, when there is no stable
\* version or the lookup fails, no job and the base description only.
C6_FailureWriteAlwaysIssued ==
  [][(WatchReacts /\ DecideFlags.failDeployment /\ DecideFlags.rollback)
       => /\ pc' = "getAllocsWait"
          /\ ev'.call = "upsertDeploymentStatusUpdate"
          /\ ev'.u.Status = DeploymentStatusFailed
          /\ IF ev'.job = Nil
             THEN ev'.u.StatusDescription =
                    << DeploymentStatusDescriptionFailedAllocations >>
             ELSE /\ ev'.job.Stable
                  /\ ev'.u.StatusDescription =
                       RollbackDesc(<< DeploymentStatusDescriptionFailedAllocations >>,
                                    ev'.job.Version)]_vars

\* the job's task group of that name has no autorevert flag set
GroupWithoutAutoRevert(name) ==
  \E i \in DOMAIN Job.TaskGroups :
     /\ Job.TaskGroups[i].Name = name
     /\ \/ Job.TaskGroups[i].Update = Nil
        \/ ~Job.TaskGroups[i].Update.AutoRevert

\* the fetched allocations that the request reports unhealthy
ReportedFetched ==
  {i \in DOMAIN rpc.allocations : rpc.allocations[i].ID \in UnhealthySet(rpc.unhealthy)}

\* SetAllocHealth has fetched the allocations for a request that reports
\* unhealthy ones
FetchedForUnhealthy ==
  /\ rpc.op = "SetAllocHealth"
  /\ Len(rpc.unhealthy) # 0
  /\ rpc.allocReads = 1
  /\ rpc.allocErr = ErrNil

\* C7: SetAllocHealth with a reported-unhealthy allocation of an autorevert
\* group always issues its write: with the stable job and a failed status
\* whose description holds its version when a stable version exists, and
\* with no job and the base description when none exists.
C7_RollbackPayload ==
  (/\ FetchedForUnhealthy
   /\ rpc.lookups = 1
   /\ rpc.versions.err = ErrNil)
    => /\ rpc.at \in {"write", "returned"}
       /\ rpc.at = "returned" =>
            /\ rpc.write # Nil
            /\ rpc.write.call = "upsertDeploymentAllocHealth"
            /\ rpc.write.DeploymentUpdate # Nil
            /\ rpc.write.DeploymentUpdate.Status = DeploymentStatusFailed
            /\ rpc.write.Job = FirstStable(rpc.versions.Versions, 1)
            /\ rpc.write.DeploymentUpdate.StatusDescription =
                 IF rpc.write.Job = Nil
                 THEN << DeploymentStatusDescriptionFailedAllocations >>
                 ELSE RollbackDesc(<< DeploymentStatusDescriptionFailedAllocations >>,
                                   rpc.write.Job.Version)

\* C8: when every reported-unhealthy allocation SetAllocHealth fetches is of
\* a task group without the autorevert flag, it looks up no job version and
\* issues its write with a failed status, the base description and no job.
C8_NoRollbackWithoutAutoRevert ==
  (/\ FetchedForUnhealthy
   /\ \A i \in ReportedFetched : GroupWithoutAutoRevert(rpc.allocations[i].TaskGroup))
    => /\ rpc.lookups = 0
       /\ rpc.at \in {"write", "returned"}
       /\ rpc.at = "write" =>
            /\ rpc.j = Nil
            /\ rpc.u = getDeploymentStatusUpdate(DeploymentStatusFailed,
                         << DeploymentStatusDescriptionFailedAllocations >>)
       /\ rpc.at = "returned" =>
            /\ rpc.write # Nil
            /\ rpc.write.call = "upsertDeploymentAllocHealth"
            /\ rpc.write.Job = Nil
            /\ rpc.write.DeploymentUpdate =
                 getDeploymentStatusUpdate(DeploymentStatusFailed,
                   << DeploymentStatusDescriptionFailedAllocations >>)

\* SetAllocHealth has written for two reported-unhealthy allocations, both
\* fetched, of the two task groups without the flag
C8_Witness ==
  /\ FetchedForUnhealthy
  /\ rpc.at = "returned"
  /\ rpc.write # Nil
  /\ {rpc.allocations[i].TaskGroup : i \in ReportedFetched} = {"B", "C"}

\* C9: PauseDeployment with pause=true writes status paused with no
\* evaluation and, on success, answers an empty evaluation id; with
\* pause=false it writes status running with a fresh evaluation and, on
\* success, answers that evaluation's non-empty id.
C9_PauseResume ==
  (rpc.op = "PauseDeployment" /\ rpc.at = "returned")
    => /\ rpc.write # Nil
       /\ rpc.write.call = "upsertDeploymentStatusUpdate"
       /\ rpc.write.Job = Nil
       /\ IF rpc.pause
          THEN /\ rpc.write.DeploymentUpdate.Status = DeploymentStatusPaused
               /\ rpc.write.Eval = Nil
               /\ rpc.ret = ErrNil => rpc.resp.EvalID = ""
          ELSE /\ rpc.write.DeploymentUpdate.Status = DeploymentStatusRunning
               /\ rpc.write.Eval # Nil
               /\ rpc.write.Eval.ID \in UUIDs
               /\ rpc.ret = ErrNil =>
                    rpc.resp.EvalID # "" /\ rpc.resp.EvalID = rpc.write.Eval.ID

\* a pause has succeeded on a response that held an evaluation id before
C9_Witness ==
  /\ rpc.op = "PauseDeployment"
  /\ rpc.at = "returned"
  /\ rpc.pause
  /\ rpc.ret = ErrNil
  /\ rpc.respIn.EvalID # ""
  /\ rpc.resp.EvalID = ""

\* C10: when the store write of SetAllocHealth, PromoteDeployment or
\* PauseDeployment fails, the operation returns that error and leaves the
\* response as it was; when SetAllocHealth's allocation fetch or job-version
\* lookup fails, it returns that error and issues no write.
C10_ErrorsSurface ==
  /\ (rpc.write # Nil /\ rpc.writeErr # ErrNil)
       => /\ rpc.at = "returned"
          /\ rpc.ret = rpc.writeErr
          /\ rpc.resp = rpc.respIn
  /\ (rpc.op = "SetAllocHealth" /\ rpc.allocErr # ErrNil)
       => /\ rpc.at = "returned"
          /\ rpc.ret = rpc.allocErr
          /\ rpc.write = Nil
          /\ rpc.resp = rpc.respIn
  /\ (rpc.op = "SetAllocHealth" /\ rpc.lookups = 1 /\ rpc.versions.err # ErrNil)
       => /\ rpc.at = "returned"
          /\ rpc.ret = rpc.versions.err
          /\ rpc.write = Nil
          /\ rpc.resp = rpc.respIn

\* a SetAllocHealth write has failed on a response the caller had filled
C10_Witness ==
  /\ rpc.op = "SetAllocHealth"
  /\ rpc.write # Nil
  /\ rpc.writeErr # ErrNil
  /\ rpc.ret # ErrNil
  /\ rpc.respIn # ZeroResponse

\* C11: every PromoteDeployment write carries a fresh evaluation, and when
\* PromoteDeployment or SetAllocHealth returns without error the response
\* holds that evaluation's id in EvalID and the write's index in both
\* EvalCreateIndex and DeploymentModifyIndex
C11_ResponseTriple ==
  /\ (rpc.op = "PromoteDeployment" /\ rpc.at = "returned")
       => /\ rpc.write # Nil
          /\ rpc.write.call = "upsertDeploymentPromotion"
          /\ rpc.write.Eval # Nil
          /\ rpc.write.Eval.ID \in UUIDs
  /\ (/\ rpc.op \in {"PromoteDeployment", "SetAllocHealth"}
      /\ rpc.at = "returned"
      /\ rpc.ret = ErrNil)
       => /\ rpc.write # Nil
          /\ rpc.writeErr = ErrNil
          /\ rpc.write.Eval # Nil
          /\ rpc.resp.EvalID = rpc.write.Eval.ID
          /\ rpc.resp.EvalCreateIndex = rpc.writeIndex
          /\ rpc.resp.DeploymentModifyIndex = rpc.writeIndex

\* a PromoteDeployment that succeeded at a non-zero index, on a response that
\* came in with other values
C11_Witness ==
  /\ rpc.op = "PromoteDeployment"
  /\ rpc.at = "returned"
  /\ rpc.ret = ErrNil
  /\ rpc.writeIndex > 0
  /\ rpc.respIn # ZeroResponse
  /\ rpc.resp.EvalID = rpc.write.Eval.ID
  /\ rpc.resp.DeploymentModifyIndex = rpc.writeIndex

\* C12: a deferred task of createEvalBatched, once started, can always take
\* its next step: a sleeping task can wake and a woken task can perform its
\* createEvaluation write, whether or not StopWatch was called meanwhile
C12_ScheduledTaskFires ==
  /\ (batchSleeping > 0 => ENABLED BatchWake)
  /\ (batchCreating > 0 => ENABLED BatchCreateEval)

\* the watch goroutine has ended: it returned, or it took the process down
Terminated == pc \in {"done", "panic"}

\* how many steps the watch goroutine can still take once w.ctx is cancelled
Rank(p) ==
  CASE p \in {"done", "panic"} -> 0
    [] p \in {"getAllocsWait", "latestEvalWait"} -> 1
    [] p \in {"getAllocsQuery", "decide"} -> 2
    [] p = "latestEvalQuery" -> 3

\* under SpecFair the watch goroutine ends once StopWatch was called
WatchEventuallyEnds == (stopCalls > 0) ~> Terminated

\* C13: a StopWatch call after the first changes nothing but the count of
\* calls (no write, no error, the context stays cancelled); once StopWatch
\* was called every step of the watch goroutine brings it nearer its end, it
\* is never blocked before its end, and once ended it takes no further step
C13_StopWatchIdempotentTerminating ==
  /\ [][(stopCalls > 0 /\ stopCalls' # stopCalls)
          => /\ ctxCancelled /\ ctxCancelled'
             /\ UNCHANGED << pc, latestEval, index, allocs, outstandingBatch,
                             batchSleeping, batchCreating, ev, writesAfterStop,
                             rpc, respIndex >>]_vars
  /\ [][(stopCalls > 0 /\ pc' # pc) => Rank(pc') < Rank(pc)]_vars
  /\ [](stopCalls > 0 /\ ~Terminated
          => (ENABLED WatchStep \/ (pc = "decide" /\ ENABLED BatchStep)))
  /\ [][Terminated => pc' = pc]_vars

\* StopWatch was called more than once and the watch goroutine returned
C13_Witness ==
  /\ stopCalls > 1
  /\ pc = "done"
  /\ ctxCancelled

\* C14 as stated: a cycle reacts exactly when a fetched allocation has a
\* deployment status modified past the previous watermark, the value
\* latestEval had when the cycle began (getAllocs' minimum index)
C14_NewAgainstPreviousWatermark ==
  [][WatchReacts
       => ((ev'.call # "none")
             <=> \E i \in DOMAIN allocs :
                   /\ allocs[i].DeploymentStatus # Nil
                   /\ allocs[i].DeploymentStatus.ModifyIndex > index)]_vars

\* C14: a cycle reacts exactly when a fetched allocation has a deployment
\* status modified past the value latestEval holds after this cycle's
\* latestEvalIndex call; it fails the deployment exactly when such an
\* allocation is unhealthy
C14_NewAgainstUpdatedWatermark ==
  [][WatchReacts
       => /\ (ev'.call # "none")
               <=> \E i \in DOMAIN allocs :
                     /\ allocs[i].DeploymentStatus # Nil
                     /\ allocs[i].DeploymentStatus.ModifyIndex > latestEval
          /\ (ev'.call \in {"upsertDeploymentStatusUpdate", "panic"})
               <=> \E i \in DOMAIN allocs :
                     /\ allocs[i].DeploymentStatus # Nil
                     /\ allocs[i].DeploymentStatus.ModifyIndex > latestEval
                     /\ IsUnhealthy(allocs[i].DeploymentStatus)]_vars

\* a cycle ended without a call although it fetched an allocation modified
\* past the watermark it began with, but not past the updated one
C14_Witness ==
  /\ ev.op = "decide"
  /\ ev.call = "none"
  /\ \E i \in DOMAIN ev.allocs :
       /\ ev.allocs[i].DeploymentStatus # Nil
       /\ ev.allocs[i].DeploymentStatus.ModifyIndex > ev.previous
       /\ ev.allocs[i].DeploymentStatus.ModifyIndex <= ev.latest

\* C15: a failure write that returns an error leaves the watermark where it
\* was, and under an unchanged store the next cycle fetches the same
\* allocations again and attempts the failure write again; a failure write
\* that succeeds sets the watermark to the returned index, which is the
\* minimum index of the next allocation fetch
C15_RetryAfterFailedWrite ==
  /\ [][(WatchReacts /\ ev'.call = "upsertDeploymentStatusUpdate")
          => IF ev'.err # ErrNil
             THEN latestEval' = latestEval /\ index' = latestEval
             ELSE latestEval' = ev'.windex /\ index' = ev'.windex]_vars
  /\ [][(store.failedWrites > 0 /\ pc = "getAllocsQuery" /\ pc' # pc)
          => /\ pc' = "latestEvalWait"
             /\ allocs' = store.Allocations]_vars
  /\ [][(store.failedWrites > 0 /\ WatchReacts)
          => /\ ev'.call = "upsertDeploymentStatusUpdate"
             /\ \E i \in DOMAIN allocs :
                  /\ allocs[i].DeploymentStatus # Nil
                  /\ IsUnhealthy(allocs[i].DeploymentStatus)]_vars

\* the failure write failed, the next cycle attempted it again, and it
\* failed again
C15_Witness ==
  /\ store.failedWrites > 1
  /\ ev.op = "decide"
  /\ ev.call = "upsertDeploymentStatusUpdate"
  /\ ev.err # ErrNil
  /\ latestEval = ev.latest

\* C16: a cycle that found a new unhealthy allocation issues the one
\* upsertDeploymentStatusUpdate write, with a fresh evaluation, the failed
\* status and the rollback job or nil, and requests no batched evaluation; a
\* cycle that found only healthy or unset new allocations requests a batched
\* evaluation and writes nothing itself
C16_OneActionPerCycle ==
  [][WatchReacts
       => LET newAllocs == {i \in DOMAIN allocs :
                             /\ allocs[i].DeploymentStatus # Nil
                             /\ allocs[i].DeploymentStatus.ModifyIndex > latestEval}
              unhealthy == {i \in newAllocs : IsUnhealthy(allocs[i].DeploymentStatus)}
          IN /\ unhealthy # {}
                  => /\ ev'.call = "upsertDeploymentStatusUpdate"
                     /\ ev'.eval # Nil
                     /\ ev'.u.Status = DeploymentStatusFailed
                     /\ ev'.job # Nil => ev'.job.Stable
                     /\ batchSleeping' = batchSleeping
             /\ (unhealthy = {} /\ newAllocs # {})
                  => /\ ev'.call = "createEvalBatched"
                     /\ ev'.eval = Nil
                     /\ ev'.u = Nil
                     /\ latestEval' = latestEval]_vars

\* C17: when the Evaluations call returns a list without error,
\* latestEvalIndex returns the result's index for an empty list, else the
\* first evaluation's snapshot index when that is not zero, else its create
\* index
C17_LatestEvalIndex ==
  (/\ fn.name = "latestEvalIndex"
   /\ fn.out # Nil
   /\ ~fn.cancelled
   /\ fn.in.err = ErrNil)
    => /\ fn.out.err = ErrNil
       /\ fn.out.index =
            IF fn.in.Evaluations = << >> THEN fn.in.Index
            ELSE IF Head(fn.in.Evaluations).SnapshotIndex > 0
            THEN Head(fn.in.Evaluations).SnapshotIndex
            ELSE Head(fn.in.Evaluations).CreateIndex

\* latestEvalIndex returned the create index of the newer of two evaluations,
\* whose snapshot index is zero, at a different store index
C17_Witness ==
  /\ fn.name = "latestEvalIndex"
  /\ fn.out # Nil
  /\ ~fn.cancelled
  /\ fn.in.err = ErrNil
  /\ Len(fn.in.Evaluations) = 2
  /\ fn.in.Evaluations[1].SnapshotIndex = 0
  /\ fn.in.Evaluations[2].SnapshotIndex # 0
  /\ fn.in.Index # fn.in.Evaluations[1].CreateIndex
  /\ fn.out.index = fn.in.Evaluations[1].CreateIndex

\* C18: an Allocations call of getAllocs that returns without error ends
\* getAllocs exactly when the result's index is past the requested minimum
\* index, 0 included, and sends it back to its rate-limiter wait otherwise;
\* on an error getAllocs returns no allocations
C18_GetAllocsPastIndex ==
  [][(pc = "getAllocsQuery" /\ pc' # pc)
       => IF ev'.err = ErrNil
          THEN /\ pc' \in {"latestEvalWait", "getAllocsWait"}
               /\ (pc' = "latestEvalWait") <=> (respIndex' > index)
               /\ (pc' = "getAllocsWait") => (allocs' = allocs)
          ELSE /\ pc' \in {"latestEvalWait", "done"}
               /\ allocs' = << >>]_vars

\* getAllocs, asked for allocations past a non-zero index, has returned a
\* non-empty list at a later index
C18_Witness ==
  /\ pc = "latestEvalWait"
  /\ ev.op = "read"
  /\ ev.err = ErrNil
  /\ index > 0
  /\ respIndex > index
  /\ allocs # << >>

\* C19: the watch goroutine reaches an Allocations or Evaluations call only
\* from the rate-limiter wait before it, with the wait successful; a call is
\* never repeated without that wait; and every iteration, also one whose
\* reads failed, goes on to a rate-limiter wait
C19_WaitBeforeQuery ==
  [][/\ (pc' = "getAllocsQuery" /\ pc # pc')
          => (pc = "getAllocsWait" /\ Wait(ctxCancelled) = ErrNil)
     /\ (pc' = "latestEvalQuery" /\ pc # pc')
          => (pc = "latestEvalWait" /\ Wait(ctxCancelled) = ErrNil)
     /\ (pc \in {"getAllocsQuery", "latestEvalQuery"} /\ pc' = pc)
          => UNCHANGED << ev, allocs, latestEval, index, respIndex >>
     /\ (pc = "getAllocsQuery" /\ pc' # pc)
          => pc' \in {"getAllocsWait", "latestEvalWait", "done"}
     /\ (pc = "latestEvalQuery" /\ pc' # pc) => pc' \in {"decide", "done"}
     /\ WatchReacts => pc' \in {"getAllocsWait", "panic"}]_vars

\* a later iteration whose Allocations call gave nothing and whose
\* Evaluations call failed has passed both rate-limiter waits
C19_Witness ==
  /\ pc = "decide"
  /\ ev.op = "read"
  /\ ev.err = ErrOther
  /\ allocs = << >>
  /\ index > 0

\* C20: the write of SetAllocHealth carries an evaluation always and a
\* status update, to failed, exactly when the request lists an unhealthy
\* allocation, found among the fetched allocations or not; with an empty
\* list SetAllocHealth reads no allocations and no job versions and its
\* write carries neither a status update nor a job
C20_StatusUpdateIffUnhealthyListed ==
  rpc.op = "SetAllocHealth"
    => /\ rpc.write # Nil
            => /\ rpc.write.call = "upsertDeploymentAllocHealth"
               /\ rpc.write.Eval # Nil
               /\ (rpc.write.DeploymentUpdate # Nil) <=> (Len(rpc.unhealthy) # 0)
               /\ rpc.write.DeploymentUpdate # Nil
                    => rpc.write.DeploymentUpdate.Status = DeploymentStatusFailed
       /\ Len(rpc.unhealthy) = 0
            => /\ rpc.allocReads = 0
               /\ rpc.lookups = 0
               /\ rpc.at \in {"write", "returned"}
               /\ rpc.at = "returned"
                    => /\ rpc.write # Nil
                       /\ rpc.write.Job = Nil

\* SetAllocHealth has written the failed status for a request whose
\* unhealthy allocations are not among the fetched ones
C20_Witness ==
  /\ rpc.op = "SetAllocHealth"
  /\ rpc.write # Nil
  /\ Len(rpc.unhealthy) # 0
  /\ rpc.allocReads = 1
  /\ rpc.allocations # << >>
  /\ \A i \in DOMAIN rpc.allocations :
       rpc.allocations[i].ID \notin UnhealthySet(rpc.unhealthy)
  /\ rpc.write.DeploymentUpdate # Nil
  /\ rpc.write.DeploymentUpdate.Status = DeploymentStatusFailed
  /\ rpc.write.Job = Nil

====
